---------------------------- MODULE Spec2Model ----------------------------
(***************************************************************************)
(* Model of the drone tracker front end (drone_tracker_frontend/src).      *)
(*                                                                         *)
(* The zustand store of App.jsx (drones, dronePaths, selectedDroneId,      *)
(* isConnected, lastUpdate) is the state; updateDrones and the other store *)
(* operations are the actions.  JavaScript values are modelled with their  *)
(* type tag, so that the truthiness tests of the code (||, !, ?.) are      *)
(* computed as JavaScript computes them.                                   *)
(***************************************************************************)
EXTENDS Integers, Sequences, FiniteSets, TLC

VARIABLES
    drones,          \* store.drones: Map id -> entity record
    dronePaths,      \* store.dronePaths: Map id -> array of samples
    selectedDroneId, \* store.selectedDroneId
    isConnected,     \* store.isConnected
    lastUpdate,      \* store.lastUpdate
    now,             \* the value Date.now() returns
    op,              \* name of the operation called last
    arg,             \* its argument
    ret,             \* its completion: [threw, value]
    nreports,        \* reports delivered so far, where the environment counts them
    ws,              \* the websocketService singleton (websocketService.js)
    map,             \* what MapboxMap has rendered: markers, popups, closures
    held             \* the path array a reader got from getDronePath and kept

vars == <<drones, dronePaths, selectedDroneId, isConnected, lastUpdate,
          now, op, arg, ret, nreports, ws, map, held>>

-----------------------------------------------------------------------------
(* Bounds of the model.                                                    *)

MaxStrLen == 3       \* longest registration string given to getColor
MaxReports == 3      \* reports handed to updateDrones in one run of Spec
MaxClock == 2        \* largest clock value in Spec
MaxSeqReports == 150 \* reports of one run of SpecSeq

-----------------------------------------------------------------------------
(* JavaScript values: a type tag (the result of typeof, with null kept     *)
(* apart), a number and a string (a sequence of characters).               *)

JS(t, n, s) == [t |-> t, n |-> n, s |-> s]
Undefined == JS("undefined", 0, <<>>)
Null == JS("null", 0, <<>>)
Num(k) == JS("number", k, <<>>)
Str(cs) == JS("string", 0, cs)
Bool(b) == JS("boolean", IF b THEN 1 ELSE 0, <<>>)
Obj == JS("object", 0, <<>>)

\* typeof v
TypeOf(v) == IF v.t = "null" THEN "object" ELSE v.t

\* ToBoolean(v): what !v, v || w and v ? a : b test
Truthy(v) ==
    CASE v.t = "undefined" -> FALSE
      [] v.t = "null" -> FALSE
      [] v.t = "boolean" -> v.n = 1
      [] v.t = "number" -> v.n # 0
      [] v.t = "string" -> v.s # <<>>
      [] OTHER -> TRUE

\* a || b
Or(a, b) == IF Truthy(a) THEN a ELSE b

\* A completion of a call: a normal return of value v, or a throw.
Returns(v) == [threw |-> FALSE, value |-> v]
Throws == [threw |-> TRUE, value |-> Undefined]

\* s.startsWith(prefix), a TypeError when s has no such method
startsWith(s, prefix) ==
    IF s.t # "string" THEN Throws
    ELSE Returns(Bool(/\ Len(s.s) >= Len(prefix)
                      /\ SubSeq(s.s, 1, Len(prefix)) = prefix))

Red == Str(<<"r", "e", "d">>)
Green == Str(<<"g", "r", "e", "e", "n">>)

-----------------------------------------------------------------------------
(* DroneColorStrategy                                                      *)

getColor_NoTypeCheck(registration) ==
    IF ~Truthy(registration) THEN Returns(Red)
    ELSE LET sw == startsWith(registration, <<"B">>)
         IN  IF sw.threw THEN Throws
             ELSE Returns(IF Truthy(sw.value) THEN Green ELSE Red)

getColor(registration) ==
    IF ~Truthy(registration) \/ TypeOf(registration) # "string"
    THEN Returns(Red)
    ELSE LET sw == startsWith(registration, <<"B">>)
         IN  IF sw.threw THEN Throws
             ELSE Returns(IF Truthy(sw.value) THEN Green ELSE Red)

-----------------------------------------------------------------------------
(* Text conversions used by updateDrones.                                  *)

Digit(d) == <<"0", "1", "2", "3", "4", "5", "6", "7", "8", "9">>[d + 1]

RECURSIVE NumToStr(_)
\* String(k) for an integer k >= 0
NumToStr(k) == IF k < 10 THEN <<Digit(k)>>
               ELSE NumToStr(k \div 10) \o <<Digit(k % 10)>>

\* String(v), as the template literal `Drone ${droneId}` converts v
ToStr(v) ==
    CASE v.t = "string" -> v.s
      [] v.t = "number" -> NumToStr(v.n)
      [] v.t = "undefined" -> <<"u", "n", "d", "e", "f", "i", "n", "e", "d">>
      [] v.t = "null" -> <<"n", "u", "l", "l">>
      [] v.t = "boolean" -> IF v.n = 1 THEN <<"t", "r", "u", "e">>
                            ELSE <<"f", "a", "l", "s", "e">>
      [] OTHER -> <<"[", "o", "b", "j", "e", "c", "t", " ",
                    "O", "b", "j", "e", "c", "t", "]">>

\* new Date(ms).toISOString() for a clock within the first minute of the epoch
toISOString(ms) ==
    LET sec == (ms \div 1000) % 60
        mil == ms % 1000
    IN  Str(<<"1", "9", "7", "0", "-", "0", "1", "-", "0", "1", "T",
              "0", "0", ":", "0", "0", ":">>
            \o <<Digit(sec \div 10), Digit(sec % 10), ".">>
            \o <<Digit(mil \div 100), Digit((mil \div 10) % 10), Digit(mil % 10)>>
            \o <<"Z">>)

DronePrefix == <<"D", "r", "o", "n", "e", " ">>
Flying == Str(<<"F", "L", "Y", "I", "N", "G">>)

-----------------------------------------------------------------------------
(* Raw reports.  A report is one entry of a batch: null, or an object with *)
(* the fields updateDrones reads.  An absent field reads as undefined.     *)

NoPosition == [present |-> FALSE, lat |-> Undefined, lng |-> Undefined,
               altitude |-> Undefined]
Position(lat, lng, alt) == [present |-> TRUE, lat |-> lat, lng |-> lng,
                            altitude |-> alt]

\* geometry absent; geometry without coordinates; geometry with coordinates
NoGeometry == [present |-> FALSE, hasCoordinates |-> FALSE, coordinates |-> <<>>]
EmptyGeometry == [present |-> TRUE, hasCoordinates |-> FALSE, coordinates |-> <<>>]
Geometry(cs) == [present |-> TRUE, hasCoordinates |-> TRUE, coordinates |-> cs]

NoProperties ==
    [present |-> FALSE, serial |-> Undefined, name |-> Undefined,
     status |-> Undefined, registration |-> Undefined, altitude |-> Undefined,
     yaw |-> Undefined, speed |-> Undefined, battery |-> Undefined,
     signal |-> Undefined]
Properties == [NoProperties EXCEPT !.present = TRUE]

BlankReport ==
    [isNull |-> FALSE, id |-> Undefined, name |-> Undefined,
     status |-> Undefined, color |-> Undefined, registration |-> Undefined,
     yaw |-> Undefined, speed |-> Undefined, battery |-> Undefined,
     signal |-> Undefined, lastUpdate |-> Undefined,
     position |-> NoPosition, geometry |-> NoGeometry,
     properties |-> NoProperties]
NullEntry == [BlankReport EXCEPT !.isNull = TRUE]

\* A batch: an array of reports, or an object that may hold a features array.
ArrayOf(items) == [isArray |-> TRUE, hasFeatures |-> FALSE, items |-> items]
FeatureCollection(items) == [isArray |-> FALSE, hasFeatures |-> TRUE, items |-> items]
NoFeatures == [isArray |-> FALSE, hasFeatures |-> FALSE, items |-> <<>>]

-----------------------------------------------------------------------------
(* Map and array helpers.                                                  *)

MapHas(m, k) == k \in DOMAIN m
MapSet(m, k, v) == [x \in DOMAIN m \cup {k} |-> IF x = k THEN v ELSE m[x]]
EmptyMap == [x \in {} |-> Undefined]

\* a[i] of a JavaScript array (0-based i); undefined beyond its length
At(a, i) == IF i + 1 <= Len(a) THEN a[i + 1] ELSE Undefined

-----------------------------------------------------------------------------
(* updateDrones: the body of the forEach callback, one report at a time.   *)

\* const drones = Array.isArray(data) ? data : data.features || []
reportsOf(data) ==
    IF data.isArray THEN data.items
    ELSE IF data.hasFeatures THEN data.items ELSE <<>>

\* const droneId = drone.id || drone.properties?.serial
droneIdOf(drone) == Or(drone.id, drone.properties.serial)

\* Whether evaluating the callback on this entry raises a TypeError: a null
\* entry (drone.id), or no position and a geometry without coordinates
\* (drone.geometry?.coordinates[1] indexes undefined).
entryThrows(drone) ==
    \/ drone.isNull
    \/ /\ ~drone.position.present
       /\ drone.geometry.present
       /\ ~drone.geometry.hasCoordinates

\* const position = drone.position || { lat, lng, altitude }
positionOf(drone) ==
    IF drone.position.present
    THEN [lat |-> drone.position.lat, lng |-> drone.position.lng,
          altitude |-> drone.position.altitude]
    ELSE [lat |-> At(drone.geometry.coordinates, 1),
          lng |-> At(drone.geometry.coordinates, 0),
          altitude |-> Or(At(drone.geometry.coordinates, 2),
                          drone.properties.altitude)]

\* color: drone.color || DroneColorStrategy.getColor(...)
colorOf(drone) ==
    IF Truthy(drone.color) THEN drone.color
    ELSE getColor(Or(drone.registration, drone.properties.registration)).value

\* The droneData literal.  hasExisting/existingDrone: newDrones.get(droneId).
droneDataOf(drone, droneId, position, hasExisting, existingDrone, currentTime) ==
    [id |-> droneId,
     name |-> Or(Or(drone.name, drone.properties.name),
                 Str(DronePrefix \o ToStr(droneId))),
     status |-> Or(Or(drone.status, drone.properties.status), Flying),
     color |-> colorOf(drone),
     position |-> position,
     latitude |-> position.lat,
     longitude |-> position.lng,
     altitude |-> Or(position.altitude, Num(0)),
     yaw |-> Or(Or(drone.yaw, drone.properties.yaw), Num(0)),
     speed |-> Or(Or(drone.speed, drone.properties.speed), Num(0)),
     battery |-> Or(Or(drone.battery, drone.properties.battery), Num(100)),
     signal |-> Or(Or(drone.signal, drone.properties.signal), Num(100)),
     lastSeen |-> Num(currentTime),
     firstSeen |-> IF hasExisting THEN Or(existingDrone.firstSeen, Num(currentTime))
                   ELSE Num(currentTime),
     flightTime |-> IF hasExisting
                    THEN Num(currentTime - existingDrone.firstSeen.n)
                    ELSE Num(0),
     lastUpdate |-> Or(drone.lastUpdate, toISOString(currentTime))]

\* The capacity of a path ("Keep only last 100 points").
PathCap == 100

appendSample_NoEvict(existingPath, sample) == Append(existingPath, sample)

appendSample_EvictNewest(existingPath, sample) ==
    LET pushed == Append(existingPath, sample)
    IN  IF Len(pushed) > PathCap THEN SubSeq(pushed, 1, Len(pushed) - 1) ELSE pushed

\* existingPath.push(sample); if (existingPath.length > 100) existingPath.shift()
appendSample(existingPath, sample) ==
    LET pushed == Append(existingPath, sample)
    IN  IF Len(pushed) > PathCap THEN Tail(pushed) ELSE pushed

\* One call of the forEach callback on entry `drone`.  acc holds newDrones,
\* newPaths and whether an earlier entry threw.
forEachBody(acc, drone, currentTime) ==
    IF entryThrows(drone) THEN [acc EXCEPT !.threw = TRUE]
    ELSE
      LET droneId == droneIdOf(drone)
          position == positionOf(drone)
          hasExisting == MapHas(acc.newDrones, droneId)
          existingDrone == IF hasExisting THEN acc.newDrones[droneId] ELSE Undefined
          droneData == droneDataOf(drone, droneId, position, hasExisting,
                                   existingDrone, currentTime)
          existingPath == IF MapHas(acc.newPaths, droneId)
                          THEN acc.newPaths[droneId] ELSE <<>>
          sample == [coordinates |-> <<position.lng, position.lat, position.altitude>>,
                     timestamp |-> Num(currentTime)]
      IN  [newDrones |-> MapSet(acc.newDrones, droneId, droneData),
           newPaths |-> MapSet(acc.newPaths, droneId,
                               appendSample(existingPath, sample)),
           threw |-> FALSE]

RECURSIVE forEach(_, _, _, _)
\* drones.forEach(callback), from entry i on; an exception ends the loop
forEach(items, i, acc, currentTime) ==
    IF i > Len(items) \/ acc.threw THEN acc
    ELSE forEach(items, i + 1, forEachBody(acc, items[i], currentTime), currentTime)

\* updateDrones(data).  newPaths is a shallow copy of the Map: the arrays of
\* the ids already in dronePaths are the store's own arrays, so push and shift
\* change them in place, also when a later entry throws and set() is never
\* reached.
\* A reader that holds nothing; a reader that holds what getDronePath(id)
\* returned: the array dronePaths holds for id (shared), or a new empty
\* array.  taken is what the array held then, samples what it holds now.
NothingHeld == [id |-> Undefined, shared |-> FALSE, taken |-> <<>>, samples |-> <<>>]
holdPath(paths, id) ==
    [id |-> id,
     shared |-> MapHas(paths, id),
     taken |-> IF MapHas(paths, id) THEN paths[id] ELSE <<>>,
     samples |-> IF MapHas(paths, id) THEN paths[id] ELSE <<>>]

\* The held array after updateDrones: newPaths.get(droneId) is the array the
\* reader holds, and it stays the array of that id (lines 141-152), so the
\* reader sees every push and shift.
seenThrough(h, paths) ==
    IF h.shared THEN [h EXCEPT !.samples = paths[h.id]] ELSE h

\* A variant that builds the new Maps from the batch alone.
updateDronesOn_FreshMaps(st, data, currentTime) ==
    LET done == forEach(reportsOf(data), 1,
                        [newDrones |-> EmptyMap, newPaths |-> EmptyMap,
                         threw |-> FALSE],
                        currentTime)
    IN  IF done.threw
        THEN [drones |-> st.drones,
              dronePaths |-> st.dronePaths,
              lastUpdate |-> st.lastUpdate,
              threw |-> TRUE]
        ELSE [drones |-> done.newDrones,
              dronePaths |-> done.newPaths,
              lastUpdate |-> Num(currentTime),
              threw |-> FALSE]

\* The store fields updateDrones writes, after the call on store st
\* ([drones, dronePaths, lastUpdate]) at clock currentTime, and whether it threw.
updateDronesOn(st, data, currentTime) ==
    LET done == forEach(reportsOf(data), 1,
                        [newDrones |-> st.drones, newPaths |-> st.dronePaths,
                         threw |-> FALSE],
                        currentTime)
    IN  IF done.threw
        THEN [drones |-> st.drones,
              dronePaths |-> [id \in DOMAIN st.dronePaths |-> done.newPaths[id]],
              lastUpdate |-> st.lastUpdate,
              threw |-> TRUE]
        ELSE [drones |-> done.newDrones,
              dronePaths |-> done.newPaths,
              lastUpdate |-> Num(currentTime),
              threw |-> FALSE]

updateDrones(data) ==
    LET done == updateDronesOn([drones |-> drones, dronePaths |-> dronePaths,
                                lastUpdate |-> lastUpdate], data, now)
    IN  /\ op' = "updateDrones"
        /\ arg' = data
        /\ drones' = done.drones
        /\ dronePaths' = done.dronePaths
        /\ lastUpdate' = done.lastUpdate
        /\ ret' = IF done.threw THEN Throws ELSE Returns(Undefined)
        /\ held' = seenThrough(held, done.dronePaths)
        /\ UNCHANGED <<selectedDroneId, isConnected, now>>

\* getDronePath(id): get().dronePaths.get(id) || []
getDronePath(id) == IF MapHas(dronePaths, id) THEN dronePaths[id] ELSE <<>>

\* Time passes: Date.now() returns a later value.
Tick ==
    /\ now < MaxClock
    /\ now' = now + 1
    /\ UNCHANGED <<drones, dronePaths, selectedDroneId, isConnected,
                   lastUpdate, op, arg, ret, nreports, ws, map, held>>

-----------------------------------------------------------------------------
(* websocketService.js: the mock fleet.  Math.random() is a draw the run   *)
(* fixes by a seed; positions count ten-thousandths of a degree.           *)

MockCount == 12      \* for (let i = 1; i <= 12; i++)
MaxSeed == 1         \* seeds of the random draws of generateMockDrones

Active == Str(<<"A", "c", "t", "i", "v", "e">>)
Idle == Str(<<"I", "d", "l", "e">>)
Warning == Str(<<"W", "a", "r", "n", "i", "n", "g">>)
Critical == Str(<<"C", "r", "i", "t", "i", "c", "a", "l">>)
Landed == Str(<<"L", "a", "n", "d", "e", "d">>)
statuses == <<Active, Idle, Warning, Critical, Landed>>

droneModels ==
    << <<"D", "J", "I", " ", "M", "a", "v", "i", "c", " ", "3", " ", "P", "r", "o">>,
       <<"D", "J", "I", " ", "M", "i", "n", "i", " ", "3", " ", "P", "r", "o">>,
       <<"D", "J", "I", " ", "A", "i", "r", " ", "2", "S">>,
       <<"D", "J", "I", " ", "P", "h", "a", "n", "t", "o", "m", " ", "4">>,
       <<"A", "u", "t", "e", "l", " ", "E", "V", "O", " ", "I", "I">>,
       <<"S", "k", "y", "d", "i", "o", " ", "2", "+">> >>

\* Math.floor(Math.random() * n), the draw made for drone i under a seed
randomBelow(n, i, seed) == (i + seed) % n

\* `drone_${i}`
mockId(i) == Str(<<"d", "r", "o", "n", "e", "_">> \o NumToStr(i))

mockDrone(i, seed, clock) ==
    LET status == statuses[randomBelow(Len(statuses), i, seed) + 1]
        model == droneModels[randomBelow(Len(droneModels), i, seed) + 1]
    IN  [BlankReport EXCEPT
            !.id = mockId(i),
            !.name = Str(model \o <<" ">> \o NumToStr(i)),
            !.status = status,
            !.position = Position(Num(377749 + randomBelow(800, 7 * i, seed) - 400),
                                  Num(randomBelow(800, 11 * i, seed) - 400 - 1224194),
                                  IF status = Landed THEN Num(0)
                                  ELSE Num(randomBelow(400, 13 * i, seed) + 50)),
            !.yaw = Num(randomBelow(360, 17 * i, seed)),
            !.speed = IF status = Landed THEN Num(0)
                      ELSE Num(randomBelow(45, 3 * i, seed)),
            !.battery = IF status = Critical THEN Num(randomBelow(15, 4 * i, seed))
                        ELSE IF status = Warning
                             THEN Num(randomBelow(30, i, seed) + 15)
                             ELSE Num(randomBelow(70, i, seed) + 30),
            !.signal = Num(randomBelow(40, i, seed) + 60),
            !.lastUpdate = toISOString(clock)]

generateMockDrones(seed, clock) == [i \in 1..MockCount |-> mockDrone(i, seed, clock)]

\* The observers a client can register: the DroneDataObserver of App.jsx,
\* which has update only, and a listener that has update and
\* updateConnectionStatus and records what it is told.
StoreObserver == "DroneDataObserver"
StatusListener == "StatusListener"
Observers == {StoreObserver, StatusListener}

\* The service after its constructor.  mockDataInterval tells whether the
\* field holds a timer; intervals and timeouts count the timers of the
\* service that are active.  The rest is what the run records: heard is the
\* connectivity values the listener was told and batches the batches it
\* got; torndown tells that a client's disconnect() was the last of its
\* connect, disconnect and forceReconnect calls; calls and fires count the
\* calls of clients and the timers that fired.
NewService(seed) ==
    [observers |-> <<>>,
     isConnected |-> FALSE,
     mockDataInterval |-> FALSE,
     mockDrones |-> generateMockDrones(seed, 0),
     intervals |-> 0,
     timeouts |-> 0,
     heard |-> <<>>,
     batches |-> 0,
     torndown |-> FALSE,
     calls |-> 0,
     fires |-> 0]

-----------------------------------------------------------------------------
(* MapboxMap.jsx: nothing is rendered before the map has loaded.           *)

NewMap ==
    [mapLoaded |-> FALSE,
     markers |-> EmptyMap,
     created |-> 0,
     currentSelectedDroneId |-> Null]

-----------------------------------------------------------------------------
(* The store after create(): lines 93-97.                                  *)

InitStore ==
    /\ drones = EmptyMap
    /\ dronePaths = EmptyMap
    /\ selectedDroneId = Null
    /\ isConnected = Bool(FALSE)
    /\ lastUpdate = Null
    /\ op = "init"
    /\ arg = Undefined
    /\ ret = Returns(Undefined)
    /\ nreports = 0
    /\ ws = NewService(0)
    /\ map = NewMap
    /\ held = NothingHeld

-----------------------------------------------------------------------------
(* SpecColor: getColor applied to values of every type.                    *)

Alphabet == {"B", "G", "b", "0", " "}

RECURSIVE StringsUpTo(_)
StringsUpTo(n) ==
    IF n = 0 THEN {<<>>}
    ELSE LET shorter == StringsUpTo(n - 1)
         IN  shorter \cup {Append(s, c) : s \in shorter, c \in Alphabet}

ColorInputs ==
    {Undefined, Null, Num(0), Num(1), Num(66), Bool(TRUE), Bool(FALSE), Obj}
    \cup {Str(s) : s \in StringsUpTo(MaxStrLen)}

CallGetColor(registration) ==
    /\ op' = "getColor"
    /\ arg' = registration
    /\ ret' = getColor(registration)
    /\ UNCHANGED <<drones, dronePaths, selectedDroneId, isConnected,
                   lastUpdate, now, nreports, ws, map, held>>

InitColor == InitStore /\ now = 0
NextColor == \E registration \in ColorInputs : CallGetColor(registration)
SpecColor == InitColor /\ [][NextColor]_vars

\* C6: getColor returns for every input without throwing; it returns 'green'
\* exactly when the input is a string whose first character is 'B', and 'red'
\* for every other input (undefined, null, '', non-strings, other strings).
C6_GetColorTotalFailClosed ==
    op = "getColor" =>
        /\ ~ret.threw
        /\ ret.value \in {Green, Red}
        /\ ret.value = Green <=>
               (arg.t = "string" /\ Len(arg.s) >= 1 /\ arg.s[1] = "B")

\* getColor has returned 'red' for a string that holds a 'B', but not first.
C6_Witness ==
    /\ op = "getColor"
    /\ arg = Str(<<"G", "B">>)
    /\ ret.value = Red

-----------------------------------------------------------------------------
(* Spec: the store fed with batches of reports of both shapes, well-formed *)
(* and malformed, while time passes.                                       *)

D1 == Str(<<"d", "1">>)
D2 == Str(<<"d", "2">>)

\* {id: 'd1', position: {lat: 1, lng: 2, altitude: 10}, registration: 'B01'}
Mock1 ==
    [BlankReport EXCEPT !.id = D1,
                        !.position = Position(Num(1), Num(2), Num(10)),
                        !.registration = Str(<<"B", "0", "1">>)]

\* {id: 'd2', position: {lat: 3, lng: 4}, registration: 'G1'}: no altitude
Mock2 ==
    [BlankReport EXCEPT !.id = D2,
                        !.position = Position(Num(3), Num(4), Undefined),
                        !.registration = Str(<<"G", "1">>)]

\* {id: 'd2', position: {...}, registration: 'G1', color: 'green'}
Painted ==
    [BlankReport EXCEPT !.id = D2,
                        !.position = Position(Num(3), Num(4), Num(5)),
                        !.registration = Str(<<"G", "1">>),
                        !.color = Green]

\* A GeoJSON feature: {properties: {serial: 'd1', registration: 'B2'},
\* geometry: {coordinates: [2, 1]}}: no altitude in any place
Feature1 ==
    [BlankReport EXCEPT !.properties =
                            [Properties EXCEPT !.serial = D1,
                                               !.registration = Str(<<"B", "2">>)],
                        !.geometry = Geometry(<<Num(2), Num(1)>>)]

\* {position: {...}, registration: 'B01'}: neither id nor properties.serial
NoId ==
    [BlankReport EXCEPT !.position = Position(Num(1), Num(2), Num(10)),
                        !.registration = Str(<<"B", "0", "1">>)]

\* {id: 'd2', geometry: {}}: a geometry without coordinates
NoCoordinates == [BlankReport EXCEPT !.id = D2, !.geometry = EmptyGeometry]

Reports == {Mock1, Mock2, Painted, Feature1, NoId, NullEntry, NoCoordinates}

RECURSIVE SeqsUpTo(_, _)
\* the sequences over S of length at most n
SeqsUpTo(S, n) ==
    IF n = 0 THEN {<<>>}
    ELSE LET shorter == SeqsUpTo(S, n - 1)
         IN  shorter \cup {Append(q, x) : q \in shorter, x \in S}

\* The batches with at most n reports: arrays, and feature collections.
Batches(n) ==
    {ArrayOf(q) : q \in SeqsUpTo(Reports, n)}
    \cup {FeatureCollection(q) : q \in SeqsUpTo({Feature1}, n)}
    \cup {NoFeatures}

\* DroneDataObserver.update(data): one batch is handed to updateDrones.
Deliver(data) ==
    /\ nreports' = nreports + Len(reportsOf(data))
    /\ updateDrones(data)
    /\ UNCHANGED <<ws, map>>

Init == InitStore /\ now \in 0..MaxClock
Next ==
    \/ \E data \in Batches(MaxReports - nreports) : Deliver(data)
    \/ Tick
Spec == Init /\ [][Next]_vars

-----------------------------------------------------------------------------
(* Claims about updateDrones, under Spec.                                  *)

\* The last call was updateDrones and it returned.
CallReturned == op = "updateDrones" /\ ~ret.threw

\* Entry i is the last entry of the batch that resolves to its id.
LastOfItsId(items, i) ==
    \A j \in (i + 1)..Len(items) : droneIdOf(items[j]) # droneIdOf(items[i])

\* A report with a resolvable id and a readable position.
WellFormed(r) ==
    /\ ~r.isNull
    /\ Truthy(droneIdOf(r))
    /\ r.position.present \/ r.geometry.hasCoordinates

\* The store holds entry i of the batch: its entity and its position.
Applied(items, i) ==
    LET id == droneIdOf(items[i])
    IN  /\ MapHas(drones, id)
        /\ MapHas(dronePaths, id)
        /\ LastOfItsId(items, i) => drones[id].position = positionOf(items[i])

\* C3: a report without a resolvable id is dropped: after the call no entity
\* and no path exists under its (unresolved) id, while every other report of
\* the batch is applied.
C3_UnresolvedReportDropped ==
    CallReturned =>
        LET items == reportsOf(arg)
        IN  \A i \in 1..Len(items) :
                IF Truthy(droneIdOf(items[i]))
                THEN Applied(items, i)
                ELSE /\ ~MapHas(drones, droneIdOf(items[i]))
                     /\ ~MapHas(dronePaths, droneIdOf(items[i]))

\* C4: updateDrones raises no exception for any batch, and every well-formed
\* report of the batch, before and after a malformed entry, is applied.
C4_MalformedEntryDoesNotAbort ==
    op = "updateDrones" =>
        /\ ~ret.threw
        /\ LET items == reportsOf(arg)
           IN  \A i \in 1..Len(items) : WellFormed(items[i]) => Applied(items, i)

\* C5: every entity has a non-empty id and a path with at least one sample;
\* drones and dronePaths have the same keys.
C5_EntityHasIdAndPath ==
    /\ DOMAIN drones = DOMAIN dronePaths
    /\ \A id \in DOMAIN drones :
           /\ Truthy(id)
           /\ drones[id].id = id
           /\ Len(getDronePath(id)) >= 1

\* C7: after updateDrones has applied a report, the color of its entity is
\* getColor of the report's registration, whatever the report's other fields.
C7_ColorFromRegistration ==
    CallReturned =>
        LET items == reportsOf(arg)
        IN  \A i \in 1..Len(items) :
                LastOfItsId(items, i) =>
                    drones[droneIdOf(items[i])].color =
                        getColor(Or(items[i].registration,
                                    items[i].properties.registration)).value

\* C8: firstSeen is the clock of the call that first stores the id, and no
\* later step changes it.
C8_FirstSeenImmutable ==
    [][\A id \in DOMAIN drones' :
           IF MapHas(drones, id)
           THEN drones'[id].firstSeen = drones[id].firstSeen
           ELSE drones'[id].firstSeen = Num(now)]_vars

\* C9: flightTime of an entity is its lastSeen minus its firstSeen, and it
\* never decreases from one update of the id to the next (the clock of the
\* model never runs backwards).
C9_FlightTimeDerived ==
    [][\A id \in DOMAIN drones' :
           /\ drones'[id].flightTime.n =
                  drones'[id].lastSeen.n - drones'[id].firstSeen.n
           /\ MapHas(drones, id) =>
                  drones'[id].flightTime.n >= drones[id].flightTime.n]_vars

\* The report holds no altitude: not in position, not as third coordinate,
\* not in properties.
NoAltitude(r) ==
    /\ r.position.altitude = Undefined
    /\ At(r.geometry.coordinates, 2) = Undefined
    /\ r.properties.altitude = Undefined

\* C10: a report without altitude yields an entity whose altitude is 0, in
\* its altitude field and in its position record.
C10_MissingAltitudeIsZero ==
    CallReturned =>
        LET items == reportsOf(arg)
        IN  \A i \in 1..Len(items) :
                (LastOfItsId(items, i) /\ NoAltitude(items[i])) =>
                    /\ drones[droneIdOf(items[i])].altitude = Num(0)
                    /\ drones[droneIdOf(items[i])].position.altitude = Num(0)

-----------------------------------------------------------------------------
(* SpecPath: long runs.  Two ids report again and again, alone, together,  *)
(* twice in one batch and in a batch that a null entry aborts, until their *)
(* paths are full and beyond.  The clock stands still and the reports do   *)
(* not change, so that a path is told by its length.                       *)

PathBatches ==
    {ArrayOf(<<Mock1>>), ArrayOf(<<Mock2>>), ArrayOf(<<Mock1, Mock1>>),
     ArrayOf(<<Mock1, Mock2>>), ArrayOf(<<Mock2, Mock1, NullEntry>>)}

DeliverAgain(data) ==
    /\ updateDrones(data)
    /\ UNCHANGED <<nreports, ws, map>>

InitPath == InitStore /\ now = 1
NextPath == \E data \in PathBatches : DeliverAgain(data)
SpecPath == InitPath /\ [][NextPath]_vars

\* C1: in every state reached by any sequence of updateDrones calls, every
\* path in dronePaths has at most 100 samples.
C1_PathAtMost100 ==
    \A id \in DOMAIN dronePaths : Len(dronePaths[id]) <= 100

\* A path is full and its id has just been reported twice in one batch.
C1_Witness ==
    /\ op = "updateDrones"
    /\ arg = ArrayOf(<<Mock1, Mock1>>)
    /\ MapHas(dronePaths, D1)
    /\ Len(dronePaths[D1]) = 100
    /\ MapHas(dronePaths, D2)
    /\ Len(dronePaths[D2]) = 100

-----------------------------------------------------------------------------
(* SpecSeq: one id reports again and again and every call returns.  The    *)
(* k-th report carries latitude k, so that a sample tells which report it  *)
(* came from.                                                              *)

Numbered(k) == [Mock1 EXCEPT !.position = Position(Num(k), Num(2), Num(10))]

\* The next len reports of the id, in one batch.
NextReports(len) == ArrayOf([i \in 1..len |-> Numbered(nreports + i)])

InitSeq == InitStore /\ now = 1
NextSeq ==
    \E len \in 1..2 :
        /\ nreports + len <= MaxSeqReports
        /\ Deliver(NextReports(len))
SpecSeq == InitSeq /\ [][NextSeq]_vars

\* The sample updateDrones appends for the k-th report.
SampleOfReport(k) ==
    [coordinates |-> <<Num(2), Num(k), Num(10)>>, timestamp |-> Num(now)]

\* C2: after n reports of one id, getDronePath(id) holds min(n, 100) samples:
\* those of the last min(n, 100) reports, in the order they arrived.
C2_PathIsLast100 ==
    LET n == nreports
        kept == IF n < 100 THEN n ELSE 100
        path == getDronePath(D1)
    IN  /\ Len(path) = kept
        /\ \A i \in 1..kept : path[i] = SampleOfReport(n - kept + i)

\* 150 reports have been applied: the path holds those of reports 51..150.
C2_Witness ==
    /\ nreports = 150
    /\ Len(getDronePath(D1)) = 100
    /\ getDronePath(D1)[1] = SampleOfReport(51)
    /\ getDronePath(D1)[100] = SampleOfReport(150)

-----------------------------------------------------------------------------
(* SpecTelemetry: one report whose yaw, speed, battery and signal are      *)
(* absent, 0 or 5 at the top level and absent or 7 under properties.       *)

MaxTelemetryReports == 1   \* reports of one run of SpecTelemetry

TopValues == {Undefined, Num(0), Num(5)}
NestedValues == {Undefined, Num(7)}

\* {id: 'd1', position: {...}, yaw, speed, battery, signal,
\*  properties: {yaw, speed, battery, signal}}
Telemetry(top, nested) ==
    [BlankReport EXCEPT !.id = D1,
                        !.position = Position(Num(1), Num(2), Num(10)),
                        !.yaw = top[1], !.speed = top[2],
                        !.battery = top[3], !.signal = top[4],
                        !.properties =
                            [Properties EXCEPT !.yaw = nested[1],
                                               !.speed = nested[2],
                                               !.battery = nested[3],
                                               !.signal = nested[4]]]

TelemetryReports ==
    {Telemetry(top, nested) : top \in [1..4 -> TopValues],
                              nested \in [1..4 -> NestedValues]}

DeliverTelemetry(r) ==
    /\ nreports < MaxTelemetryReports
    /\ Deliver(ArrayOf(<<r>>))

InitTelemetry == InitStore /\ now = 1
NextTelemetry == \E r \in TelemetryReports : DeliverTelemetry(r)
SpecTelemetry == InitTelemetry /\ [][NextTelemetry]_vars

\* The resolution order of a field: the top-level value when the field is
\* present, else the one under properties, else the default.
Resolved(top, nested, default) ==
    IF top # Undefined THEN top
    ELSE IF nested # Undefined THEN nested
    ELSE default

\* C11: after updateDrones, the entity's yaw, speed, battery and signal are
\* the report's top-level value whenever that field is present (0 included),
\* the properties value only when the top-level field is absent, and the
\* default (0, 0, 100, 100) only when both are absent.
C11_TelemetryResolution ==
    CallReturned =>
        \A i \in 1..Len(reportsOf(arg)) :
            LET r == reportsOf(arg)[i]
                id == droneIdOf(r)
            IN  (WellFormed(r) /\ LastOfItsId(reportsOf(arg), i)) =>
                    /\ MapHas(drones, id)
                    /\ drones[id].yaw = Resolved(r.yaw, r.properties.yaw, Num(0))
                    /\ drones[id].speed = Resolved(r.speed, r.properties.speed, Num(0))
                    /\ drones[id].battery =
                           Resolved(r.battery, r.properties.battery, Num(100))
                    /\ drones[id].signal =
                           Resolved(r.signal, r.properties.signal, Num(100))

-----------------------------------------------------------------------------
(* The other store operations: App.jsx lines 162-207.                      *)

\* A variant that ignores an id the store does not hold.
selectDrone_Validating(droneId) ==
    /\ op' = "selectDrone"
    /\ arg' = droneId
    /\ selectedDroneId' = IF MapHas(drones, droneId) THEN droneId
                          ELSE selectedDroneId
    /\ ret' = Returns(Undefined)
    /\ UNCHANGED <<drones, dronePaths, isConnected, lastUpdate, now>>

\* selectDrone: (droneId) => set({ selectedDroneId: droneId })
selectDrone(droneId) ==
    /\ op' = "selectDrone"
    /\ arg' = droneId
    /\ selectedDroneId' = droneId
    /\ ret' = Returns(Undefined)
    /\ UNCHANGED <<drones, dronePaths, isConnected, lastUpdate, now>>

\* clearSelection: () => set({ selectedDroneId: null })
clearSelection ==
    /\ op' = "clearSelection"
    /\ arg' = Undefined
    /\ selectedDroneId' = Null
    /\ ret' = Returns(Undefined)
    /\ UNCHANGED <<drones, dronePaths, isConnected, lastUpdate, now>>

\* setConnectionStatus: (status) => set({ isConnected: status })
setConnectionStatus(status) ==
    /\ op' = "setConnectionStatus"
    /\ arg' = status
    /\ isConnected' = status
    /\ ret' = Returns(Undefined)
    /\ UNCHANGED <<drones, dronePaths, selectedDroneId, lastUpdate, now>>

RECURSIVE SumOf(_, _)
\* drones.reduce((sum, d) => sum + d.altitude, 0) over the ids left
SumOf(m, ids) ==
    IF ids = {} THEN 0
    ELSE LET id == CHOOSE x \in ids : TRUE
         IN  m[id].altitude.n + SumOf(m, ids \ {id})

\* a / b, kept exact as a fraction
Quotient(a, b) == [t |-> "number", numerator |-> a, denominator |-> b]

\* getStatistics(): null for an empty store, else the statistics object
getStatistics ==
    LET ids == DOMAIN drones
        altitudes == {drones[id].altitude.n : id \in ids}
    IN  IF Cardinality(ids) = 0 THEN Null
        ELSE [t |-> "object",
              totalDrones |-> Num(Cardinality(ids)),
              redDrones |-> Num(Cardinality({id \in ids : drones[id].color = Red})),
              greenDrones |-> Num(Cardinality({id \in ids : drones[id].color = Green})),
              averageAltitude |-> Quotient(SumOf(drones, ids), Cardinality(ids)),
              maxAltitude |-> Num(CHOOSE a \in altitudes : \A b \in altitudes : b <= a),
              minAltitude |-> Num(CHOOSE a \in altitudes : \A b \in altitudes : a <= b)]

CallGetStatistics ==
    /\ op' = "getStatistics"
    /\ arg' = Undefined
    /\ ret' = Returns(getStatistics)
    /\ UNCHANGED <<drones, dronePaths, selectedDroneId, isConnected,
                   lastUpdate, now, nreports, ws, map, held>>

-----------------------------------------------------------------------------
(* SpecStore: every store operation, in any order, on a small fleet.       *)

MaxStoreReports == 2   \* reports handed to updateDrones in one run of SpecStore

D9 == Str(<<"d", "9">>)          \* an id no report carries
StoreReports == {Mock1, Mock2, Feature1, NullEntry}
SelectableIds == {D1, D2, D9}

StoreCall(A) == A /\ UNCHANGED <<nreports, ws, map, held>>

InitStoreOps == InitStore /\ now \in 0..MaxClock
NextStoreOps ==
    \/ \E q \in SeqsUpTo(StoreReports, MaxStoreReports - nreports) :
           Deliver(ArrayOf(q))
    \/ \E id \in SelectableIds : StoreCall(selectDrone(id))
    \/ StoreCall(clearSelection)
    \/ \E b \in BOOLEAN : StoreCall(setConnectionStatus(Bool(b)))
    \/ CallGetStatistics
    \/ Tick
SpecStore == InitStoreOps /\ [][NextStoreOps]_vars

\* C12: getStatistics on a store without entities returns a statistics
\* object whose totalDrones is 0, not an absent value.
C12_EmptyStatisticsNeutral ==
    (op = "getStatistics" /\ DOMAIN drones = {}) =>
        /\ ~ret.threw
        /\ ret.value.t = "object"
        /\ "totalDrones" \in DOMAIN ret.value
        /\ ret.value.totalDrones = Num(0)

\* C13: selectDrone(id) sets selectedDroneId to id, whether or not the store
\* holds id, and returns; clearSelection sets it to null; both leave drones,
\* dronePaths, isConnected and lastUpdate as they were; updateDrones leaves
\* selectedDroneId as it was.  (A step that keeps the clock is a call, and op
\* names it.)
C13_SelectionFrame ==
    [][now' = now =>
          /\ op' = "selectDrone" =>
                 /\ selectedDroneId' = arg'
                 /\ ~ret'.threw
                 /\ UNCHANGED <<drones, dronePaths, isConnected, lastUpdate>>
          /\ op' = "clearSelection" =>
                 /\ selectedDroneId' = Null
                 /\ ~ret'.threw
                 /\ UNCHANGED <<drones, dronePaths, isConnected, lastUpdate>>
          /\ op' = "updateDrones" => selectedDroneId' = selectedDroneId]_vars

\* An id the store does not hold is selected while the store holds another
\* entity and the connection flag is set.
C13_Witness ==
    /\ op = "selectDrone"
    /\ selectedDroneId = D9
    /\ ~MapHas(drones, D9)
    /\ MapHas(drones, D1)
    /\ isConnected = Bool(TRUE)

\* The ids the entries of a batch resolve to.
idsOf(data) ==
    {droneIdOf(reportsOf(data)[i]) :
        i \in {j \in 1..Len(reportsOf(data)) : ~reportsOf(data)[j].isNull}}

\* C21: no step removes an id from drones or from dronePaths, and an
\* updateDrones call leaves the entity and the path of every id that no
\* entry of its batch resolves to exactly as they were.
C21_EntitiesNeverRemoved ==
    [][/\ DOMAIN drones \subseteq DOMAIN drones'
       /\ DOMAIN dronePaths \subseteq DOMAIN dronePaths'
       /\ (op' = "updateDrones" /\ now' = now) =>
              \A id \in DOMAIN drones \ idsOf(arg') :
                  /\ drones'[id] = drones[id]
                  /\ dronePaths'[id] = dronePaths[id]]_vars

\* A batch for d1 alone has been applied to a store that holds d2.
C21_Witness ==
    /\ op = "updateDrones"
    /\ ~ret.threw
    /\ idsOf(arg) = {D1}
    /\ MapHas(drones, D1)
    /\ MapHas(drones, D2)
    /\ Len(dronePaths[D2]) = 1

-----------------------------------------------------------------------------
(* MapboxMap.jsx: the marker effect (lines 65-196) and the click handler   *)
(* of a marker (lines 151-161), wired by App.jsx lines 46-57.  A marker    *)
(* removed from the map takes its popup with it (mapbox-gl Marker.remove). *)

UpperCase == <<"A", "B", "C", "D", "E", "F", "G", "H", "I", "J", "K", "L", "M",
               "N", "O", "P", "Q", "R", "S", "T", "U", "V", "W", "X", "Y", "Z">>
LowerCase == <<"a", "b", "c", "d", "e", "f", "g", "h", "i", "j", "k", "l", "m",
               "n", "o", "p", "q", "r", "s", "t", "u", "v", "w", "x", "y", "z">>

\* cs.toLowerCase()
toLowerCase(cs) ==
    [i \in 1..Len(cs) |->
        IF \E k \in 1..26 : UpperCase[k] = cs[i]
        THEN LowerCase[CHOOSE k \in 1..26 : UpperCase[k] = cs[i]]
        ELSE cs[i]]

\* status?.toLowerCase(): undefined for undefined and null, a TypeError for
\* a value without the method
optionalLowerCase(status) ==
    IF status.t \in {"undefined", "null"} THEN Returns(Undefined)
    ELSE IF status.t = "string" THEN Returns(Str(toLowerCase(status.s)))
    ELSE Throws

MarkerGreen == "#00ff00"
MarkerYellow == "#ffff00"
MarkerRed == "#ff0000"
MarkerBlue == "#0080ff"

\* getDroneColor(status), for a status whose toLowerCase() returns
getDroneColor(status) ==
    LET lowered == optionalLowerCase(status).value
    IN  CASE lowered \in {Str(<<"a", "c", "t", "i", "v", "e">>),
                          Str(<<"f", "l", "y", "i", "n", "g">>)} -> MarkerGreen
          [] lowered \in {Str(<<"w", "a", "r", "n", "i", "n", "g">>),
                          Str(<<"l", "o", "w", " ", "b", "a", "t", "t", "e", "r", "y">>)}
               -> MarkerYellow
          [] lowered \in {Str(<<"c", "r", "i", "t", "i", "c", "a", "l">>),
                          Str(<<"e", "m", "e", "r", "g", "e", "n", "c", "y">>),
                          Str(<<"u", "n", "a", "u", "t", "h", "o", "r", "i", "z", "e", "d">>)}
               -> MarkerRed
          [] lowered \in {Str(<<"i", "d", "l", "e">>),
                          Str(<<"l", "a", "n", "d", "e", "d">>)} -> MarkerBlue
          [] OTHER -> MarkerGreen

\* propSelectedDroneId || selectedDroneId, both read from the store by App
currentSelectedOf(selected) == Or(selected, selected)

\* The marker the effect creates for an entity; serial tells apart the
\* markers of different runs of the effect.
newMarker(drone, current, serial) ==
    [serial |-> serial,
     color |-> getDroneColor(drone.status),
     lngLat |-> <<drone.position.lng, drone.position.lat>>,
     emphasis |-> current = drone.id,
     pulse |-> optionalLowerCase(drone.status).value
                   = Str(<<"a", "c", "t", "i", "v", "e">>),
     popup |-> current = drone.id]

\* Line 74: the entities the effect does not skip.
placeable(drone) ==
    /\ Truthy(Obj)
    /\ Truthy(drone.position.lat)
    /\ Truthy(drone.position.lng)

\* One run of the marker effect past its guard: every marker is removed and
\* a new one is created for every entity it does not skip.  A status
\* without toLowerCase throws out of the effect and React unmounts the map.
syncMarkers(m, entities, current) ==
    LET shown == {id \in DOMAIN entities : placeable(entities[id])}
    IN  IF \E id \in shown : optionalLowerCase(entities[id].status).threw
        THEN [m EXCEPT !.markers = EmptyMap,
                       !.currentSelectedDroneId = current]
        ELSE [m EXCEPT !.markers = [id \in shown |->
                                       newMarker(entities[id], current, m.created + 1)],
                       !.created = m.created + 1,
                       !.currentSelectedDroneId = current]

\* The render that follows an event: the effect runs when the store has a
\* new drones Map, another selection, or the map has just loaded.
render(m, entities, replaced, selected, loaded) ==
    LET current == currentSelectedOf(selected)
        changed == \/ replaced
                   \/ current # m.currentSelectedDroneId
                   \/ loaded # m.mapLoaded
        seen == [m EXCEPT !.mapLoaded = loaded]
    IN  IF ~changed THEN m
        ELSE IF ~loaded THEN [seen EXCEPT !.currentSelectedDroneId = current]
        ELSE syncMarkers(seen, entities, current)

\* A click on the marker of entity id: the handler decides with the
\* selection its closure captured, then calls onDroneSelect, which is
\* handleMapDroneSelect of App and calls selectDrone(id).
markerClick(id) ==
    LET afterHandler == IF map.currentSelectedDroneId = id THEN Null ELSE id
        afterOnDroneSelect == id
    IN  /\ map.mapLoaded
        /\ MapHas(map.markers, id)
        /\ op' = "markerClick"
        /\ arg' = id
        /\ ret' = Returns(Undefined)
        /\ selectedDroneId' = afterOnDroneSelect
        /\ map' = render(map, drones, FALSE, afterOnDroneSelect, map.mapLoaded)
        /\ UNCHANGED <<drones, dronePaths, isConnected, lastUpdate, now,
                       nreports, ws, held>>

\* handleDroneClick(droneId) of the sidebar: selectDrone(droneId); the
\* camera move that follows changes no state of the model.
handleDroneClick(droneId) ==
    /\ selectDrone(droneId)
    /\ map' = render(map, drones, FALSE, droneId, map.mapLoaded)
    /\ UNCHANGED <<nreports, ws, held>>

\* map.current.on('load'): setMapLoaded(true), then the effect runs
mapLoad ==
    /\ ~map.mapLoaded
    /\ op' = "load"
    /\ arg' = Undefined
    /\ ret' = Returns(Undefined)
    /\ map' = render(map, drones, FALSE, selectedDroneId, TRUE)
    /\ UNCHANGED <<drones, dronePaths, selectedDroneId, isConnected,
                   lastUpdate, now, nreports, ws, held>>

\* A batch reaches the store and the component renders the new Map.
deliverToMap(data) ==
    /\ nreports' = nreports + Len(reportsOf(data))
    /\ updateDrones(data)
    /\ map' = render(map, drones', ~ret'.threw, selectedDroneId, map.mapLoaded)
    /\ UNCHANGED ws

-----------------------------------------------------------------------------
(* SpecMap: batches, sidebar clicks and marker clicks on the loaded or     *)
(* loading map.                                                            *)

MaxMapReports == 2   \* reports delivered in one run of SpecMap
MaxSyncs == 4        \* runs of the marker effect in one run of SpecMap

\* {id: 'd2', position: {lat: 0, lng: 4, altitude: 5}, registration: 'G1'}
OnEquator ==
    [BlankReport EXCEPT !.id = D2,
                        !.position = Position(Num(0), Num(4), Num(5)),
                        !.registration = Str(<<"G", "1">>)]

\* {id: 'd1', status: 'Critical', position: {...}, registration: 'B01'}
CriticalSafe == [Mock1 EXCEPT !.status = Critical]

\* {id: 'd2', status: 'Active', position: {...}, registration: 'G1'}
ActiveUnsafe ==
    [BlankReport EXCEPT !.id = D2,
                        !.status = Active,
                        !.position = Position(Num(3), Num(4), Num(5)),
                        !.registration = Str(<<"G", "1">>)]

MapReports == {Mock1, Mock2, OnEquator, CriticalSafe, ActiveUnsafe}

InitMap == InitStore /\ now = 1
\* An event of a run of SpecMap, while the effect may still run.
MapEvent(A) == map.created < MaxSyncs /\ A

NextMap ==
    \/ \E r \in MapReports :
           MapEvent(nreports < MaxMapReports /\ deliverToMap(ArrayOf(<<r>>)))
    \/ \E id \in SelectableIds : MapEvent(handleDroneClick(id))
    \/ \E id \in SelectableIds : MapEvent(markerClick(id))
    \/ MapEvent(mapLoad)
SpecMap == InitMap /\ [][NextMap]_vars

\* The entities whose popup is open on the map.
openPopups == {id \in DOMAIN map.markers : map.markers[id].popup}

\* C14: a click on the marker of the selected entity leaves no entity
\* selected; a click on the marker of another entity leaves that entity
\* selected.
C14_MarkerClickToggles ==
    [][op' = "markerClick" =>
          IF currentSelectedOf(selectedDroneId) = arg'
          THEN selectedDroneId' = Null
          ELSE selectedDroneId' = arg']_vars

\* C15: at most one popup is open and it is the selected entity's; when an
\* entity is selected and a selection of another entity follows, both held by
\* the store, exactly one popup is open afterwards, the second entity's.
C15_OnePopupOnSelection ==
    /\ [](/\ Cardinality(openPopups) <= 1
          /\ \A id \in openPopups : id = selectedDroneId)
    /\ [][(/\ map.mapLoaded
           /\ op' \in {"selectDrone", "markerClick"}
           /\ MapHas(drones, selectedDroneId)
           /\ MapHas(drones, arg')
           /\ arg' # selectedDroneId
           /\ selectedDroneId' = arg')
          => openPopups' = {arg'}]_vars

\* C16: across a run of the marker effect, the marker of an entity that had
\* one and is still in the store is the same marker as before.
C16_MarkersKeptInPlace ==
    [][\A id \in DOMAIN map.markers :
           MapHas(drones', id) =>
               /\ MapHas(map'.markers, id)
               /\ map'.markers[id].serial = map.markers[id].serial]_vars

\* C17: two markers have the same color exactly when their entities have the
\* same category color, whatever their status.
C17_MarkerColorByCategory ==
    \A a, b \in DOMAIN map.markers :
        (drones[a].color = drones[b].color)
            <=> (map.markers[a].color = map.markers[b].color)

-----------------------------------------------------------------------------
(* websocketService.js: observers, connect, disconnect, forceReconnect and *)
(* the timers.  st is the store the DroneDataObserver writes:              *)
(* [drones, dronePaths, lastUpdate].                                       *)

theStore == [drones |-> drones, dronePaths |-> dronePaths, lastUpdate |-> lastUpdate]

RECURSIVE notifyFrom(_, _, _, _, _)
\* observers.forEach(observer => observer.update(data)), from observer i on;
\* an update that throws ends the forEach
notifyFrom(observers, i, acc, data, clock) ==
    IF i > Len(observers) \/ acc.threw THEN acc
    ELSE IF observers[i] = StoreObserver
         THEN LET done == updateDronesOn(acc.store, data, clock)
              IN  notifyFrom(observers, i + 1,
                             [acc EXCEPT !.store = [drones |-> done.drones,
                                                    dronePaths |-> done.dronePaths,
                                                    lastUpdate |-> done.lastUpdate],
                                         !.threw = done.threw],
                             data, clock)
         ELSE notifyFrom(observers, i + 1, [acc EXCEPT !.batches = @ + 1],
                         data, clock)

notifyObservers(w, st, data, clock) ==
    notifyFrom(w.observers, 1,
               [store |-> st, batches |-> w.batches, threw |-> FALSE],
               data, clock)

\* notifyConnectionStatus: only an observer with updateConnectionStatus is told
notifyConnectionStatus(w, value) ==
    LET told == SelectSeq(w.observers, LAMBDA o : o = StatusListener)
    IN  [w EXCEPT !.heard = @ \o [i \in 1..Len(told) |-> value]]

\* A variant that starts the timer without sending the batch it holds.
connectOn_NoInitialBatch(w, st, clock) ==
    [ws |-> notifyConnectionStatus([w EXCEPT !.isConnected = TRUE,
                                             !.mockDataInterval = TRUE,
                                             !.intervals = @ + 1], TRUE),
     store |-> st,
     threw |-> FALSE]

\* connect()
connectOn(w, st, clock) ==
    LET sent == notifyObservers(w, st, ArrayOf(w.mockDrones), clock)
        told == [w EXCEPT !.isConnected = TRUE, !.batches = sent.batches]
    IN  IF sent.threw
        THEN [ws |-> told, store |-> sent.store, threw |-> TRUE]
        ELSE [ws |-> notifyConnectionStatus([told EXCEPT !.mockDataInterval = TRUE,
                                                         !.intervals = @ + 1], TRUE),
              store |-> sent.store,
              threw |-> FALSE]

\* disconnect()
disconnectOn(w) ==
    notifyConnectionStatus(
        [w EXCEPT !.intervals = IF w.mockDataInterval THEN @ - 1 ELSE @,
                  !.mockDataInterval = FALSE,
                  !.isConnected = FALSE],
        FALSE)

\* a % b of JavaScript, whose sign is the sign of a
Remainder(a, b) == IF a >= 0 THEN a % b ELSE 0 - ((0 - a) % b)

Max(a, b) == IF a >= b THEN a ELSE b
Min(a, b) == IF a <= b THEN a ELSE b

\* The callback of mockDrones.map in updateMockDronePositions, every
\* (Math.random() - 0.5) * k drawn as d and Math.random() * 0.5 as 0.
movedDrone(drone, d, clock) ==
    IF drone.status = Landed
    THEN [drone EXCEPT !.lastUpdate = toISOString(clock)]
    ELSE [drone EXCEPT
             !.position =
                 [@ EXCEPT !.lat = Num(@.n + d),
                           !.lng = Num(@.n + d),
                           !.altitude = IF drone.status = Active
                                        THEN Num(Max(20, Min(500, @.n + d)))
                                        ELSE Num(Max(10, @.n + d))],
             !.yaw = Num(Remainder(@.n + d, 360)),
             !.speed = IF drone.status = Active
                       THEN Num(Max(5, Min(50, @.n + d)))
                       ELSE Num(Max(0, @.n + d)),
             !.battery = Num(Max(0, Min(100, @.n - 0))),
             !.signal = Num(Max(30, Min(100, @.n + d))),
             !.lastUpdate = toISOString(clock)]

\* What every action of the service does to the variables it does not own.
ServiceStep(name, done) ==
    /\ op' = name
    /\ arg' = Undefined
    /\ ret' = IF done.threw THEN Throws ELSE Returns(Undefined)
    /\ ws' = done.ws
    /\ drones' = done.store.drones
    /\ dronePaths' = done.store.dronePaths
    /\ lastUpdate' = done.store.lastUpdate
    /\ held' = seenThrough(held, done.store.dronePaths)
    /\ UNCHANGED <<selectedDroneId, isConnected, now, nreports, map>>

Untouched(w) == [ws |-> w, store |-> theStore, threw |-> FALSE]
Called(w) == [w EXCEPT !.calls = @ + 1]

addObserver(observer) ==
    ServiceStep("addObserver",
                Untouched([Called(ws) EXCEPT !.observers = Append(@, observer)]))

removeObserver(observer) ==
    ServiceStep("removeObserver",
                Untouched([Called(ws) EXCEPT
                              !.observers = SelectSeq(@, LAMBDA obs : obs # observer)]))

\* connect() called by a client
connect ==
    ServiceStep("connect",
                connectOn([Called(ws) EXCEPT !.torndown = FALSE], theStore, now))

\* disconnect() called by a client
disconnect ==
    ServiceStep("disconnect",
                Untouched([disconnectOn(Called(ws)) EXCEPT !.torndown = TRUE]))

\* forceReconnect(): disconnect(), then setTimeout(() => this.connect(), 1000)
forceReconnect ==
    ServiceStep("forceReconnect",
                Untouched([disconnectOn(Called(ws)) EXCEPT !.timeouts = @ + 1,
                                                           !.torndown = FALSE]))

\* The timeout of forceReconnect fires: connect()
reconnectTimeout ==
    /\ ws.timeouts > 0
    /\ ServiceStep("connect",
                   connectOn([ws EXCEPT !.timeouts = @ - 1, !.fires = @ + 1],
                             theStore, now))

\* An interval of connect fires: updateMockDronePositions()
updateMockDronePositions(d) ==
    LET moved == [ws EXCEPT
                     !.mockDrones = [i \in 1..Len(@) |-> movedDrone(@[i], d, now)],
                     !.fires = @ + 1]
        sent == notifyObservers(moved, theStore, ArrayOf(moved.mockDrones), now)
    IN  /\ ws.intervals > 0
        /\ ServiceStep("updateMockDronePositions",
                       [ws |-> [moved EXCEPT !.batches = sent.batches],
                        store |-> sent.store,
                        threw |-> sent.threw])

-----------------------------------------------------------------------------
(* SpecService: clients call the service in any order while its timers     *)
(* fire.                                                                   *)

MaxCalls == 3    \* calls of clients in one run of SpecService
MaxFires == 2    \* timers that fire in one run of SpecService
Drift == {0 - 1, 0}

InitService ==
    /\ drones = EmptyMap
    /\ dronePaths = EmptyMap
    /\ selectedDroneId = Null
    /\ isConnected = Bool(FALSE)
    /\ lastUpdate = Null
    /\ op = "init"
    /\ arg = Undefined
    /\ ret = Returns(Undefined)
    /\ nreports = 0
    /\ now = 1
    /\ map = NewMap
    /\ held = NothingHeld
    /\ \E seed \in 0..MaxSeed : ws = NewService(seed)

ClientCall(A) == ws.calls < MaxCalls /\ A
TimerFires(A) == ws.fires < MaxFires /\ A

NextService ==
    \/ \E o \in Observers : ClientCall(addObserver(o))
    \/ \E o \in Observers : ClientCall(removeObserver(o))
    \/ ClientCall(connect)
    \/ ClientCall(disconnect)
    \/ ClientCall(forceReconnect)
    \/ TimerFires(reconnectTimeout)
    \/ \E d \in Drift : TimerFires(updateMockDronePositions(d))
SpecService == InitService /\ [][NextService]_vars

\* C18: the connectivity values the listener is told alternate, starting
\* with true: none repeats the value before it, and none tells a service
\* that was never connected that it is disconnected.
C18_NotifiedOncePerChange ==
    \A i \in 1..Len(ws.heard) :
        ws.heard[i] = (IF i = 1 THEN TRUE ELSE ~ws.heard[i - 1])

\* C19: while a client's disconnect() is the last of its connect, disconnect
\* and forceReconnect calls, no interval and no timeout of the service is
\* active, and neither a timer-driven batch nor a timer-driven connect has
\* just run.
C19_NoTimerAfterDisconnect ==
    ws.torndown =>
        /\ ws.intervals = 0
        /\ ws.timeouts = 0
        /\ op \notin {"updateMockDronePositions", "connect"}

\* The registrations of observer o.
Registrations(w, o) == Len(SelectSeq(w.observers, LAMBDA obs : obs = o))

\* C20: a connect() sends the batch the service holds, unmoved, to every
\* registered observer before it returns: the listener has got one batch
\* more per registration, and with the DroneDataObserver registered the
\* store holds every drone of that batch at its position.
C20_InitialBatchOnConnect ==
    [][(op' = "connect" /\ ws'.intervals = ws.intervals + 1) =>
          /\ ~ret'.threw
          /\ ws'.mockDrones = ws.mockDrones
          /\ ws'.batches = ws.batches + Registrations(ws, StatusListener)
          /\ Registrations(ws, StoreObserver) > 0 =>
                 /\ lastUpdate' = Num(now)
                 /\ \A k \in 1..MockCount :
                        /\ MapHas(drones', mockId(k))
                        /\ drones'[mockId(k)].position = positionOf(ws.mockDrones[k])
                        /\ Len(dronePaths'[mockId(k)]) >= 1]_vars

\* connect() has returned with both observers registered, before any timer
\* fired: the store holds the twelve drones and the listener one batch.
C20_Witness ==
    /\ op = "connect"
    /\ ws.fires = 0
    /\ Registrations(ws, StoreObserver) = 1
    /\ ws.batches = 1
    /\ Cardinality(DOMAIN drones) = MockCount
    /\ ws.intervals = 1

-----------------------------------------------------------------------------
(* What a reader of the store sees across an updateDrones call.            *)

\* getDroneById(id): get().drones.get(id)
getDroneById(id) == IF MapHas(drones, id) THEN drones[id] ELSE Undefined

\* The ids a reader may ask for.
KnownIds == DOMAIN drones \cup DOMAIN dronePaths \cup {D1, D2}

\* C22: an updateDrones call that fails on an entry leaves what getDroneById
\* and getDronePath return for every id exactly as it was before the call.
C22_BatchAtomic ==
    [][(op' = "updateDrones" /\ ret'.threw) =>
          \A id \in KnownIds :
              /\ getDroneById(id)' = getDroneById(id)
              /\ getDronePath(id)' = getDronePath(id)]_vars

\* C23: on a loaded map the rendered markers are keyed by exactly the ids of
\* the entities in the store, one marker per entity, wherever the entity is.
C23_MarkerPerEntity ==
    map.mapLoaded => DOMAIN map.markers = DOMAIN drones

-----------------------------------------------------------------------------
(* SpecSnapshot: a reader keeps the array getDronePath returned while      *)
(* batches arrive.                                                         *)

MaxSnapshotReports == 3   \* reports delivered in one run of SpecSnapshot

SnapshotReports == {Mock1, Mock2, NullEntry}

\* const path = getDronePath(id), kept by the reader
readDronePath(id) ==
    /\ op' = "getDronePath"
    /\ arg' = id
    /\ ret' = Returns(Obj)
    /\ held' = holdPath(dronePaths, id)
    /\ UNCHANGED <<drones, dronePaths, selectedDroneId, isConnected,
                   lastUpdate, now, nreports, ws, map>>

InitSnapshot == InitStore /\ now = 1
NextSnapshot ==
    \/ \E q \in SeqsUpTo(SnapshotReports, MaxSnapshotReports - nreports) :
           Deliver(ArrayOf(q))
    \/ \E id \in {D1, D2} : readDronePath(id)
SpecSnapshot == InitSnapshot /\ [][NextSnapshot]_vars

\* C24: the array a reader got from getDronePath holds the samples it held
\* when the reader got it, whatever updateDrones calls came after.
C24_SnapshotUnchanged == held.samples = held.taken

-----------------------------------------------------------------------------
(* The ConnectionStatus indicator of MapboxMap.jsx (lines 12-18, 227,      *)
(* 251-265) and the delivery of batches to observers, under SpecService.   *)

\* A field of the object useDroneStore() returns: the state of lines 93-97;
\* any other name reads as undefined.
readStore(field) ==
    CASE field = "selectedDroneId" -> selectedDroneId
      [] field = "isConnected" -> isConnected
      [] field = "lastUpdate" -> lastUpdate
      [] field \in {"drones", "dronePaths"} -> Obj
      [] OTHER -> Undefined

\* getStatusConfig(): which case of the switch the indicator shows
getStatusConfig(connectionStatus) ==
    CASE connectionStatus = Str(<<"c", "o", "n", "n", "e", "c", "t", "e", "d">>)
             -> "connected"
      [] connectionStatus = Str(<<"c", "o", "n", "n", "e", "c", "t", "i", "n", "g">>)
             -> "connecting"
      [] connectionStatus
             = Str(<<"d", "i", "s", "c", "o", "n", "n", "e", "c", "t", "e", "d">>)
             -> "disconnected"
      [] connectionStatus = Str(<<"e", "r", "r", "o", "r">>) -> "error"
      [] OTHER -> "unknown"

\* <ConnectionStatus connectionStatus={connectionStatus} />
indicator == getStatusConfig(readStore("connectionStatus"))

\* C25: with the DroneDataObserver registered, the indicator shows
\* 'connected' once connect() has returned and 'disconnected' once
\* disconnect() has returned, and never the 'unknown' fallback while the
\* service is connected.
C25_IndicatorFollowsService ==
    (Registrations(ws, StoreObserver) > 0 /\ op \in {"connect", "disconnect"}) =>
        /\ (op = "connect" /\ ~ret.threw) => indicator = "connected"
        /\ op = "disconnect" => indicator = "disconnected"
        /\ ws.isConnected => indicator # "unknown"

\* The length of the path of id in the Map paths, 0 without one.
pathLength(paths, id) == IF MapHas(paths, id) THEN Len(paths[id]) ELSE 0

\* C26: a step that notifies the observers of a batch hands it once to the
\* listener when it is registered, however often, and not at all when it is
\* not; likewise the store gets one sample per drone of the batch when the
\* DroneDataObserver is registered and is left alone when it is not.
C26_DeliveredOncePerObserver ==
    [][(op' \in {"connect", "updateMockDronePositions"} /\ ws' # ws) =>
          /\ ws'.batches = ws.batches
                 + (IF Registrations(ws, StatusListener) > 0 THEN 1 ELSE 0)
          /\ \A k \in 1..MockCount :
                 pathLength(dronePaths', mockId(k)) =
                     pathLength(dronePaths, mockId(k))
                         + (IF Registrations(ws, StoreObserver) > 0 THEN 1 ELSE 0)]_vars

=============================================================================
